---- MODULE Spec2Model ----
(***************************************************************************)
(* Model of src/src/App.tsx: the React component App of the password       *)
(* generator.  The state is the component's useState cells, the operations *)
(* are the mount effect, the "Generate new" button, the length slider and  *)
(* the four category checkboxes.  Strings are sequences of one-character   *)
(* strings, so that charAt, length and the regular-expression tests are    *)
(* computed character by character.                                        *)
(***************************************************************************)
EXTENDS Integers, Sequences, FiniteSets, TLC

VARIABLES
    password,          \* useState('')            App.tsx:22
    length,            \* useState(16)            App.tsx:23
    includeUppercase,  \* useState(true)          App.tsx:24
    includeLowercase,  \* useState(true)          App.tsx:25
    includeNumbers,    \* useState(true)          App.tsx:26
    includeSymbols,    \* useState(true)          App.tsx:27
    strength,          \* useState('medium')      App.tsx:29
    cryptoAvailable,   \* whether window.crypto.getRandomValues can be called
    phase,             \* "unmounted" | "mounted" | "crashed"
    characters,        \* local `characters` of the call that stored the password
    array,             \* local `array` (Uint32Array) of the call that stored the password
    lastCall           \* what the most recent handler did

vars == <<password, length, includeUppercase, includeLowercase, includeNumbers,
          includeSymbols, strength, cryptoAvailable, phase, characters, array,
          lastCall>>

----------------------------------------------------------------------------
(* Bounds of the exploration *)

\* slider positions explored: MinLength..MaxLen and the default position
MaxLen == 9
\* sample arrays are arithmetic progressions with steps 0, 4, ..., 4 * MaxStep
MaxStep == 1
\* classifier inputs: every string of at most MaxCore characters of ClassifyChars
MaxCore == 2
\* ... followed by 0..MaxPad lowercase letters
MaxPad == 13

----------------------------------------------------------------------------
(* Program constants *)

MinLength == 6
MaxLength == 50
DefaultLength == 16
\* a Uint32Array element is written as two 16-bit halves, hi * 65536 + lo
Half == 65536

lowercase == <<"a","b","c","d","e","f","g","h","i","j","k","l","m",
               "n","o","p","q","r","s","t","u","v","w","x","y","z">>
uppercase == <<"A","B","C","D","E","F","G","H","I","J","K","L","M",
               "N","O","P","Q","R","S","T","U","V","W","X","Y","Z">>
numbers   == <<"0","1","2","3","4","5","6","7","8","9">>
symbols   == <<"!","@","#","$","%","^","&","*","(",")","_","+","-","=",
               "[","]","{","}","|",";",":",",",".","<",">","?">>

\* the character classes of the regular expressions in calculateStrength
ReAZ == {"A","B","C","D","E","F","G","H","I","J","K","L","M",
         "N","O","P","Q","R","S","T","U","V","W","X","Y","Z"}
Reaz == {"a","b","c","d","e","f","g","h","i","j","k","l","m",
         "n","o","p","q","r","s","t","u","v","w","x","y","z"}
Re09 == {"0","1","2","3","4","5","6","7","8","9"}

PasswordStrength == {"weak", "medium", "strong", "very-strong"}

----------------------------------------------------------------------------
(* Inputs *)

\* slider positions: min="6" max="50"
SliderValues == { n \in MinLength..MaxLength : n <= MaxLen \/ n = DefaultLength }

\* what getRandomValues may write into a Uint32Array of n elements: every
\* element is an unsigned 32-bit value.  The explored arrays are the
\* progressions base, base+step, ... reduced modulo 2^32.
U32(h, l) == [hi |-> h, lo |-> l]
\* x + k reduced modulo 2^32, for 0 <= k < 2^16
AddU32(x, k) ==
    LET l == x.lo + k
    IN  U32((x.hi + (l \div Half)) % Half, l % Half)
\* the JavaScript x % m for an unsigned 32-bit x and 0 < m < 2^15
ModU32(x, m) == ((x.hi % m) * (Half % m) + (x.lo % m)) % m

SampleBases == {U32(0, 0), U32(0, 45), U32(Half - 1, Half - 1)}
SampleSteps == { 4 * k : k \in 0..MaxStep }
SampleArray(n, base, step) == [i \in 1..n |-> AddU32(base, (i - 1) * step)]

----------------------------------------------------------------------------
(* generatePassword, lines 31-60 *)

\* variant: an empty selection falls back to the lowercase letters
BuildCharactersFallback(lo, up, nu, sy) ==
    LET c0 == <<>>
        c1 == IF lo THEN c0 \o lowercase ELSE c0
        c2 == IF up THEN c1 \o uppercase ELSE c1
        c3 == IF nu THEN c2 \o numbers ELSE c2
        c4 == IF sy THEN c3 \o symbols ELSE c3
    IN  IF c4 = <<>> THEN lowercase ELSE c4

\* variant: the uppercase letters are put in front of the lowercase letters
BuildCharactersUpperFirst(lo, up, nu, sy) ==
    LET c0 == <<>>
        c1 == IF up THEN c0 \o uppercase ELSE c0
        c2 == IF lo THEN c1 \o lowercase ELSE c1
        c3 == IF nu THEN c2 \o numbers ELSE c2
        c4 == IF sy THEN c3 \o symbols ELSE c3
    IN  c4

\* variant: the uppercase checkbox appends the lowercase letters
BuildCharactersWrongClass(lo, up, nu, sy) ==
    LET c0 == <<>>
        c1 == IF lo THEN c0 \o lowercase ELSE c0
        c2 == IF up THEN c1 \o lowercase ELSE c1
        c3 == IF nu THEN c2 \o numbers ELSE c2
        c4 == IF sy THEN c3 \o symbols ELSE c3
    IN  c4

\* lines 39-43: let characters = ''; if (include...) characters += charset...
BuildCharacters(lo, up, nu, sy) ==
    LET c0 == <<>>
        c1 == IF lo THEN c0 \o lowercase ELSE c0
        c2 == IF up THEN c1 \o uppercase ELSE c1
        c3 == IF nu THEN c2 \o numbers ELSE c2
        c4 == IF sy THEN c3 \o symbols ELSE c3
    IN  c4

\* characters.charAt(k) for a 0-based k within range
CharAt(s, k) == s[k + 1]

\* variant: the loop runs while i <= length (the last sample is used twice)
RECURSIVE AppendCharsOneMore(_, _, _, _, _)
AppendCharsOneMore(generatedPassword, chars, arr, i, n) ==
    IF i <= n
    THEN AppendCharsOneMore(
             Append(generatedPassword,
                    CharAt(chars, ModU32(arr[IF i < n THEN i + 1 ELSE n], Len(chars)))),
             chars, arr, i + 1, n)
    ELSE generatedPassword

\* variant: each selected character is put in front of the password
RECURSIVE AppendCharsInFront(_, _, _, _, _)
AppendCharsInFront(generatedPassword, chars, arr, i, n) ==
    IF i < n
    THEN AppendCharsInFront(
             <<CharAt(chars, ModU32(arr[i + 1], Len(chars)))>> \o generatedPassword,
             chars, arr, i + 1, n)
    ELSE generatedPassword

\* lines 50-56: the loop appending characters.charAt(array[i] % characters.length)
RECURSIVE AppendChars(_, _, _, _, _)
AppendChars(generatedPassword, chars, arr, i, n) ==
    IF i < n
    THEN AppendChars(Append(generatedPassword, CharAt(chars, ModU32(arr[i + 1], Len(chars)))),
                     chars, arr, i + 1, n)
    ELSE generatedPassword

----------------------------------------------------------------------------
(* calculateStrength, lines 62-74 *)

RegexTest(class, pwd) == \E i \in 1..Len(pwd) : pwd[i] \in class
RegexTestNot(classes, pwd) == \E i \in 1..Len(pwd) : pwd[i] \notin classes

\* variant: the length thresholds are >= 8 and >= 12
ScoreInclusive(pwd) ==
    LET s0 == 0
        s1 == IF Len(pwd) >= 8 THEN s0 + 1 ELSE s0
        s2 == IF Len(pwd) >= 12 THEN s1 + 1 ELSE s1
        s3 == IF RegexTest(ReAZ, pwd) THEN s2 + 1 ELSE s2
        s4 == IF RegexTest(Re09, pwd) THEN s3 + 1 ELSE s3
        s5 == IF RegexTestNot(ReAZ \cup Reaz \cup Re09, pwd) THEN s4 + 1 ELSE s4
    IN  s5

\* lines 63-68
Score(pwd) ==
    LET s0 == 0
        s1 == IF Len(pwd) > 8 THEN s0 + 1 ELSE s0
        s2 == IF Len(pwd) > 12 THEN s1 + 1 ELSE s1
        s3 == IF RegexTest(ReAZ, pwd) THEN s2 + 1 ELSE s2
        s4 == IF RegexTest(Re09, pwd) THEN s3 + 1 ELSE s3
        s5 == IF RegexTestNot(ReAZ \cup Reaz \cup Re09, pwd) THEN s4 + 1 ELSE s4
    IN  s5

\* variant: every tier starts one point lower
CalculateStrengthShifted(pwd) ==
    LET score == Score(pwd)
    IN  IF score <= 1 THEN "weak"
        ELSE IF score = 2 THEN "medium"
        ELSE IF score = 3 THEN "strong"
        ELSE "very-strong"

\* lines 70-73: the value calculateStrength passes to setStrength
CalculateStrength(pwd) ==
    LET score == Score(pwd)
    IN  IF score <= 2 THEN "weak"
        ELSE IF score = 3 THEN "medium"
        ELSE IF score = 4 THEN "strong"
        ELSE "very-strong"

----------------------------------------------------------------------------
(* State machine *)

Init ==
    /\ password = <<>>
    /\ length = DefaultLength
    /\ includeUppercase = TRUE
    /\ includeLowercase = TRUE
    /\ includeNumbers = TRUE
    /\ includeSymbols = TRUE
    /\ strength = "medium"
    /\ cryptoAvailable \in BOOLEAN
    /\ phase = "unmounted"
    /\ characters = <<>>
    /\ array = <<>>
    /\ lastCall = "none"

Config == <<length, includeUppercase, includeLowercase, includeNumbers, includeSymbols>>

\* variant: without the secure source the samples come from elsewhere
GetRandomValuesThrowsNever == FALSE

\* line 52: window.crypto.getRandomValues(array) throws when the secure
\* random source is missing; generatePassword has no try/catch
GetRandomValuesThrows == ~cryptoAvailable

\* One call of generatePassword with the current configuration.
\* onThrow is the phase the component is in after an uncaught exception.
GeneratePassword(onThrow) ==
    LET chars == BuildCharacters(includeLowercase, includeUppercase,
                                 includeNumbers, includeSymbols)
    IN  /\ UNCHANGED <<Config, cryptoAvailable>>
        /\ IF chars = <<>>
           THEN \* lines 45-48: no array is allocated
                /\ password' = <<>>
                /\ characters' = chars
                /\ array' = <<>>
                /\ UNCHANGED strength
                /\ phase' = "mounted"
                /\ lastCall' = "empty"
           ELSE IF GetRandomValuesThrows
           THEN \* line 52 throws: nothing after it runs, the locals are dropped
                /\ UNCHANGED <<password, strength, characters, array>>
                /\ phase' = onThrow
                /\ lastCall' = "thrown"
           ELSE \* lines 50-59
                \E base \in SampleBases, step \in SampleSteps :
                    LET arr == SampleArray(length, base, step)
                        generatedPassword == AppendChars(<<>>, chars, arr, 0, length)
                    IN  /\ characters' = chars
                        /\ array' = arr
                        /\ password' = generatedPassword
                        /\ strength' = CalculateStrength(generatedPassword)
                        /\ phase' = "mounted"
                        /\ lastCall' = "generated"

\* lines 87-89: useEffect(() => { generatePassword(); }, [])
Mount ==
    /\ phase = "unmounted"
    /\ GeneratePassword("crashed")

\* lines 130-131: <button onClick={generatePassword}>
ClickGenerate ==
    /\ phase = "mounted"
    /\ GeneratePassword("mounted")

\* lines 212-217: onChange={(e) => setLength(parseInt(e.target.value))}
ChangeLength ==
    /\ phase = "mounted"
    /\ \E n \in SliderValues :
          /\ n # length
          /\ length' = n
    /\ lastCall' = "config"
    /\ UNCHANGED <<password, includeUppercase, includeLowercase, includeNumbers,
                   includeSymbols, strength, cryptoAvailable, phase, characters, array>>

\* lines 223-227 and 260-261: onChange(!checked)
ToggleUppercase ==
    /\ phase = "mounted"
    /\ includeUppercase' = ~includeUppercase
    /\ lastCall' = "config"
    /\ UNCHANGED <<password, length, includeLowercase, includeNumbers,
                   includeSymbols, strength, cryptoAvailable, phase, characters, array>>

ToggleLowercase ==
    /\ phase = "mounted"
    /\ includeLowercase' = ~includeLowercase
    /\ lastCall' = "config"
    /\ UNCHANGED <<password, length, includeUppercase, includeNumbers,
                   includeSymbols, strength, cryptoAvailable, phase, characters, array>>

ToggleNumbers ==
    /\ phase = "mounted"
    /\ includeNumbers' = ~includeNumbers
    /\ lastCall' = "config"
    /\ UNCHANGED <<password, length, includeUppercase, includeLowercase,
                   includeSymbols, strength, cryptoAvailable, phase, characters, array>>

ToggleSymbols ==
    /\ phase = "mounted"
    /\ includeSymbols' = ~includeSymbols
    /\ lastCall' = "config"
    /\ UNCHANGED <<password, length, includeUppercase, includeLowercase,
                   includeNumbers, strength, cryptoAvailable, phase, characters, array>>

\* the host environment: the secure random source becomes unavailable or
\* available again between two handlers
EnvCryptoChange ==
    /\ phase = "mounted"
    /\ cryptoAvailable' = ~cryptoAvailable
    /\ UNCHANGED <<password, Config, strength, phase, characters, array, lastCall>>

Next ==
    \/ Mount
    \/ ClickGenerate
    \/ ChangeLength
    \/ ToggleUppercase
    \/ ToggleLowercase
    \/ ToggleNumbers
    \/ ToggleSymbols
    \/ EnvCryptoChange

Spec == Init /\ [][Next]_vars

TypeOK ==
    /\ length \in SliderValues
    /\ strength \in PasswordStrength
    /\ phase \in {"unmounted", "mounted", "crashed"}
    /\ lastCall \in {"none", "generated", "empty", "thrown", "config", "classified"}

----------------------------------------------------------------------------
(* calculateStrength on its own: the classifier applied to arbitrary strings *)

ClassifyChars == {"a", "z", "A", "Z", "0", "9", "!", "[", "_"}

RECURSIVE SeqsUpTo(_, _)
SeqsUpTo(S, n) ==
    IF n = 0 THEN {<<>>}
    ELSE LET shorter == SeqsUpTo(S, n - 1)
         IN  shorter \cup { Append(q, c) : q \in shorter, c \in S }

Pad(k) == [i \in 1..k |-> "b"]

Example1 == <<"a","b","c","d","e","f","g">>
Example2 == <<"A","b","c","d","e","f","g","h","i">>
Example3 == <<"A","b","c","d","e","f","g","h","i","1">>
Example4 == <<"A","b","c","d","e","f","g","h","i","j","k","l","1","!">>

ClassifyInputs ==
    { core \o Pad(k) : core \in SeqsUpTo(ClassifyChars, MaxCore), k \in 0..MaxPad }
        \cup {Example1, Example2, Example3, Example4}

InitClassify ==
    /\ password \in ClassifyInputs
    /\ length = DefaultLength
    /\ includeUppercase = TRUE
    /\ includeLowercase = TRUE
    /\ includeNumbers = TRUE
    /\ includeSymbols = TRUE
    /\ strength = "medium"
    /\ cryptoAvailable = TRUE
    /\ phase = "mounted"
    /\ characters = <<>>
    /\ array = <<>>
    /\ lastCall = "none"

\* lines 62-74: calculateStrength(pwd) applied to the string pwd = password
Classify ==
    /\ lastCall = "none"
    /\ strength' = CalculateStrength(password)
    /\ lastCall' = "classified"
    /\ UNCHANGED <<password, Config, cryptoAvailable, phase, characters, array>>

NextClassify == Classify

SpecClassify == InitClassify /\ [][NextClassify]_vars

----------------------------------------------------------------------------
(* Properties *)

Range(q) == { q[i] : i \in 1..Len(q) }
NoneEnabled == ~includeLowercase /\ ~includeUppercase /\ ~includeNumbers /\ ~includeSymbols
AnyEnabled == ~NoneEnabled
OnlyLowercase == includeLowercase /\ ~includeUppercase /\ ~includeNumbers /\ ~includeSymbols
B2N(b) == IF b THEN 1 ELSE 0

\* the enabled class strings, concatenated in the order lowercase, uppercase,
\* numbers, symbols
Classes == <<lowercase, uppercase, numbers, symbols>>
Flags == <<includeLowercase, includeUppercase, includeNumbers, includeSymbols>>
RECURSIVE ConcatEnabled(_)
ConcatEnabled(k) ==
    IF k = 0 THEN <<>>
    ELSE ConcatEnabled(k - 1) \o (IF Flags[k] THEN Classes[k] ELSE <<>>)
ExpectedAlphabet == ConcatEnabled(4)

\* the step just taken was a call of generatePassword (the handlers that change
\* the configuration set lastCall to "config", the environment changes
\* cryptoAvailable)
GenerateStep ==
    /\ lastCall' \in {"generated", "empty", "thrown"}
    /\ cryptoAvailable' = cryptoAvailable
    /\ Config' = Config

\* the reference scoring of the classifier
RefScore(pwd) ==
    B2N(Len(pwd) > 8) + B2N(Len(pwd) > 12)
    + B2N(Range(pwd) \cap Range(uppercase) # {})
    + B2N(Range(pwd) \cap Range(numbers) # {})
    + B2N(Range(pwd) \ (Range(uppercase) \cup Range(lowercase) \cup Range(numbers)) # {})
RefTier(pwd) ==
    CASE RefScore(pwd) <= 2 -> "weak"
      [] RefScore(pwd) = 3 -> "medium"
      [] RefScore(pwd) = 4 -> "strong"
      [] RefScore(pwd) >= 5 -> "very-strong"

\* C1: after a generation with length in 6..50 and at least one category
\* enabled, the stored password has exactly `length` characters, each a
\* character of the alphabet of the enabled categories.
C1_LengthAndAlphabet ==
    (lastCall = "generated") =>
        /\ length \in MinLength..MaxLength
        /\ AnyEnabled
        /\ Len(password) = length
        /\ \A i \in 1..Len(password) : password[i] \in Range(ExpectedAlphabet)

C1_Witness ==
    /\ lastCall = "generated"
    /\ length = MinLength
    /\ ~includeLowercase /\ ~includeUppercase /\ includeNumbers /\ includeSymbols
    /\ Len(password) = MinLength
    /\ Range(password) \cap Range(symbols) # {}

\* C2: a call of generatePassword with all four categories disabled sets the
\* password to the empty string, does not throw and does not consult the
\* random source, whether or not the secure source is available.
C2_EmptyAlphabet ==
    [][ (GenerateStep /\ NoneEnabled) =>
            /\ lastCall' = "empty"
            /\ password' = <<>>
            /\ array' = <<>>
            /\ phase' = "mounted" ]_vars

C2_Witness ==
    /\ lastCall = "empty"
    /\ NoneEnabled
    /\ ~cryptoAvailable
    /\ password = <<>>
    /\ length # DefaultLength

\* C3: calculateStrength sets the tier given by the reference scoring; the
\* four worked examples get weak, weak, medium and very-strong.
C3_ReferenceScoring ==
    (lastCall = "classified") =>
        /\ strength = RefTier(password)
        /\ (password = Example1 => strength = "weak")
        /\ (password = Example2 => strength = "weak")
        /\ (password = Example3 => strength = "medium")
        /\ (password = Example4 => strength = "very-strong")

C3_Witness ==
    /\ lastCall = "classified"
    /\ password = Example4
    /\ strength = "very-strong"

\* C4: a call of generatePassword with a category enabled and the secure
\* source unavailable throws, and leaves the stored password and the
\* strength tier as they were.
C4_RandomnessUnavailable ==
    [][ (GenerateStep /\ AnyEnabled /\ ~cryptoAvailable) =>
            /\ lastCall' = "thrown"
            /\ password' = password
            /\ strength' = strength ]_vars

C4_Witness ==
    /\ lastCall = "thrown"
    /\ phase = "mounted"
    /\ ~cryptoAvailable
    /\ AnyEnabled
    /\ password # <<>>
    /\ Len(password) # length

\* C5: in every reachable state the stored strength tier is the
\* classification of the stored password.
C5_StrengthDerived ==
    strength = RefTier(password)

\* C6: in every reachable state with a non-empty password, the password has
\* the configured length and only characters of the current alphabet.
C6_FollowsConfiguration ==
    (password # <<>>) =>
        /\ Len(password) = length
        /\ \A i \in 1..Len(password) : password[i] \in Range(ExpectedAlphabet)

\* C7: the alphabet built by generatePassword is the concatenation of the
\* enabled class strings in the order lowercase, uppercase, numbers, symbols,
\* whatever the order in which the checkboxes were set.
C7_AlphabetOrder ==
    (lastCall \in {"generated", "empty"}) =>
        /\ characters = ExpectedAlphabet
        /\ (includeLowercase /\ ~includeUppercase /\ includeNumbers /\ ~includeSymbols
                => characters = lowercase \o numbers)

C7_Witness ==
    /\ lastCall = "generated"
    /\ includeLowercase /\ ~includeUppercase /\ includeNumbers /\ ~includeSymbols
    /\ characters = lowercase \o numbers

\* C8 as stated: the symbols class has 27 characters, so the alphabet has 89
\* characters with all four categories enabled.
C8_Original ==
    (lastCall = "generated") =>
        /\ Len(characters) = 26 * B2N(includeLowercase) + 26 * B2N(includeUppercase)
                             + 10 * B2N(includeNumbers) + 27 * B2N(includeSymbols)
        /\ Cardinality(Range(characters)) = Len(characters)

\* C8 amended: the classes have 26, 26, 10 and 26 characters, the alphabet's
\* length is the sum of the sizes of the enabled classes (88 with all four)
\* and it has no repeated character.
C8_AlphabetSize ==
    (lastCall = "generated") =>
        /\ Len(characters) = 26 * B2N(includeLowercase) + 26 * B2N(includeUppercase)
                             + 10 * B2N(includeNumbers) + 26 * B2N(includeSymbols)
        /\ Cardinality(Range(characters)) = Len(characters)
        /\ (includeLowercase /\ includeUppercase /\ includeNumbers /\ includeSymbols
                => Len(characters) = 88)

C8_Witness ==
    /\ lastCall = "generated"
    /\ includeLowercase /\ includeUppercase /\ includeNumbers /\ includeSymbols
    /\ Len(characters) = 88
    /\ password[Len(password)] \in Range(symbols)

\* C9: the i-th character of a generated password is the alphabet character
\* at index (sample_i mod alphabetLength), in sampling order, so the password
\* is determined by the configuration and the samples.
C9_SampleIndexing ==
    (lastCall = "generated") =>
        /\ Len(array) = length
        /\ password = [i \in 1..length |->
                          ExpectedAlphabet[ModU32(array[i], Len(ExpectedAlphabet)) + 1]]

C9_Witness ==
    /\ lastCall = "generated"
    /\ array[1] = U32(Half - 1, Half - 1)
    /\ array[2] = U32(0, 3)
    /\ includeLowercase /\ includeUppercase /\ includeNumbers /\ includeSymbols
    /\ password[1] = "V"
    /\ password[2] = "d"

\* C10: a generated password of length <= 8 is at most medium, one of length
\* <= 12 is at most strong, and with only lowercase enabled it is weak.
C10_TierCap ==
    (lastCall = "generated") =>
        /\ (length <= 8 => strength \in {"weak", "medium"})
        /\ (length <= 12 => strength \in {"weak", "medium", "strong"})
        /\ (OnlyLowercase => strength = "weak")

C10_Witness ==
    /\ lastCall = "generated"
    /\ length = 9
    /\ strength = "strong"

C10_WitnessMedium ==
    /\ lastCall = "generated"
    /\ length = 8
    /\ strength = "medium"

C10_WitnessLowercase ==
    /\ lastCall = "generated"
    /\ OnlyLowercase
    /\ length = DefaultLength
    /\ strength = "weak"

====
